---- MODULE Spec2Model ----
(***************************************************************************)
(* Conway's Game of Life on a toroidal grid: the Universe of               *)
(* wasm-game-of-life/src/lib.rs (new, tick, render, get_index,             *)
(* live_neighbor_count, Display::fmt).                                     *)
(*                                                                         *)
(* A Cell is its repr(u8) discriminant: Dead = 0, Alive = 1.  The Vec      *)
(* cells is a sequence; Rust index idx is element idx + 1 of it.           *)
(* tick is modelled at the grain of one iteration of its inner loop, so    *)
(* that every intermediate point inside a tick is a state.                 *)
(***************************************************************************)
EXTENDS Integers, Sequences, FiniteSets

VARIABLES
    width,      \* Universe.width
    height,     \* Universe.height
    cells,      \* Universe.cells
    next,       \* tick's local `next` (<<>> outside a tick)
    row,        \* tick's outer loop variable
    col,        \* tick's inner loop variable
    pc,         \* "idle" | "tick" (inside tick) | "panic" (tick aborted)
    budget,     \* number of tick calls the host will still make
    out,        \* String returned by render when it was the last call, else <<>>
    gen0,       \* history: cells at the moment the current/last tick began
    visited     \* history: the indices written by the current/last tick, in order

vars == <<width, height, cells, next, row, col, pc, budget, out, gen0, visited>>

\* ------------------------------------------------------------------ bounds
\* Number of consecutive ticks the host performs on the 64x64 universe.
MaxTicks == 2
\* Largest width and height of the small universes whose every grid state is
\* explored.
MaxWidth == 4
MaxHeight == 3

\* ------------------------------------------------------------------ Cell
Dead == 0
Alive == 1
Cell == {Dead, Alive}

\* Largest value the model accepts for a u32 intermediate.  TLC's integers
\* are 32-bit signed, so the model tests the stronger bound 2^31 - 1: a value
\* that fits it fits a u32.
U32Checked == 2147483647
U8Max == 255

fits_u32(x) == x >= 0 /\ x <= U32Checked

\* self.cells[idx] / next[idx] for a Rust index idx
cell_at(cs, idx) == cs[idx + 1]

\* ------------------------------------------------------------------ new
new_width == 64
new_height == 64

\* variant: `&&` written for `||`
new_cell_and(i) == IF i % 2 = 0 /\ i % 7 = 0 THEN Alive ELSE Dead

new_cell(i) == IF i % 2 = 0 \/ i % 7 = 0 THEN Alive ELSE Dead

\* variant: the range taken inclusive, 0..=width * height
new_cells_inclusive(w, h) == [k \in 1..(w * h + 1) |-> new_cell(k - 1)]

\* (0..width * height).map(..).collect()
new_cells(w, h) == [k \in 1..(w * h) |-> new_cell(k - 1)]

\* ------------------------------------------------------------------ get_index
\* variant: row and column exchanged
get_index_swapped(w, r, c) == c * w + r

get_index(w, r, c) == r * w + c

\* ------------------------------------------------------------------ live_neighbor_count
\* [self.height - 1, 0, 1] and [self.width - 1, 0, 1]
deltas(d) == <<d - 1, 0, 1>>

\* variant: the `continue` for the cell itself is missing
delta_pairs_no_skip(w, h) ==
    LET dr == deltas(h)
        dc == deltas(w)
    IN [k \in 1..9 |-> <<dr[((k - 1) \div 3) + 1], dc[((k - 1) % 3) + 1]>>]

\* the (delta_row, delta_col) pairs the two loops reach past the `continue`,
\* in loop order
delta_pairs(w, h) ==
    LET dr == deltas(h)
        dc == deltas(w)
        all == [k \in 1..9 |-> <<dr[((k - 1) \div 3) + 1], dc[((k - 1) % 3) + 1]>>]
    IN SelectSeq(all, LAMBDA p : ~(p[1] = 0 /\ p[2] = 0))

\* variant: the row is not reduced modulo the height
neighbor_row_no_wrap(h, r, delta_row) == r + delta_row

neighbor_row(h, r, delta_row) == (r + delta_row) % h
neighbor_col(w, c, delta_col) == (c + delta_col) % w

\* the (neighbor_row, neighbor_col) pairs whose cells are added to count
neighbor_cells(w, h, r, c) ==
    LET dp == delta_pairs(w, h)
    IN [k \in 1..Len(dp) |-> <<neighbor_row(h, r, dp[k][1]), neighbor_col(w, c, dp[k][2])>>]

RECURSIVE sum_cells(_, _, _, _)
sum_cells(w, cs, nb, k) ==
    IF k = 0 THEN 0
    ELSE sum_cells(w, cs, nb, k - 1) + cell_at(cs, get_index(w, nb[k][1], nb[k][2]))

live_neighbor_count(w, h, cs, r, c) ==
    LET nb == neighbor_cells(w, h, r, c)
    IN sum_cells(w, cs, nb, Len(nb))

\* ------------------------------------------------------------------ tick
\* variant: `x <= 2` written for `x < 2` in the first arm
next_cell_le2(cell, live_neighbors) ==
    IF cell = Alive /\ live_neighbors <= 2 THEN Dead
    ELSE IF cell = Alive /\ (live_neighbors = 2 \/ live_neighbors = 3) THEN Alive
    ELSE IF cell = Alive /\ live_neighbors > 3 THEN Dead
    ELSE IF cell = Dead /\ live_neighbors = 3 THEN Alive
    ELSE cell

\* variant: the reproduction arm is missing
next_cell_no_birth(cell, live_neighbors) ==
    IF cell = Alive /\ live_neighbors < 2 THEN Dead
    ELSE IF cell = Alive /\ (live_neighbors = 2 \/ live_neighbors = 3) THEN Alive
    ELSE IF cell = Alive /\ live_neighbors > 3 THEN Dead
    ELSE cell

\* the match of tick, arms in source order
next_cell(cell, live_neighbors) ==
    IF cell = Alive /\ live_neighbors < 2 THEN Dead
    ELSE IF cell = Alive /\ (live_neighbors = 2 \/ live_neighbors = 3) THEN Alive
    ELSE IF cell = Alive /\ live_neighbors > 3 THEN Dead
    ELSE IF cell = Dead /\ live_neighbors = 3 THEN Alive
    ELSE cell

\* variant: the iteration reads the buffer it writes (no snapshot)
tick_cell_reads_next(w, h, cs, nx, r, c) ==
    LET idx == get_index(w, r, c)
        live_neighbors == live_neighbor_count(w, h, nx, r, c)
    IN [cells |-> cs,
        next |-> [nx EXCEPT ![idx + 1] = next_cell(cell_at(nx, idx), live_neighbors)]]

\* variant: the iteration writes self.cells[idx] as well
tick_cell_in_place(w, h, cs, nx, r, c) ==
    LET idx == get_index(w, r, c)
        v == next_cell(cell_at(cs, idx), live_neighbor_count(w, h, cs, r, c))
    IN [cells |-> [cs EXCEPT ![idx + 1] = v],
        next |-> [nx EXCEPT ![idx + 1] = v]]

\* One iteration of the inner loop body, as the pair of buffers after it.
\* All reads go to self.cells (cs), the write goes to next (nx).
tick_cell(w, h, cs, nx, r, c) ==
    LET idx == get_index(w, r, c)
        cell == cell_at(cs, idx)
        live_neighbors == live_neighbor_count(w, h, cs, r, c)
    IN [cells |-> cs,
        next |-> [nx EXCEPT ![idx + 1] = next_cell(cell, live_neighbors)]]

\* The failure outcomes of one iteration: arithmetic overflow (a panic in a
\* debug build), remainder by zero, and an index outside a Vec.
tick_cell_fails(w, h, cs, nx, r, c) ==
    LET idx == get_index(w, r, c)
        dp == delta_pairs(w, h)
        nb == neighbor_cells(w, h, r, c)
    IN \/ ~fits_u32(r * w) \/ ~fits_u32(idx)
       \/ idx >= Len(cs) \/ idx >= Len(nx)
       \/ ~fits_u32(h - 1) \/ ~fits_u32(w - 1)
       \/ h = 0 \/ w = 0
       \/ \E k \in 1..Len(dp) : ~fits_u32(r + dp[k][1]) \/ ~fits_u32(c + dp[k][2])
       \/ \E k \in 1..Len(nb) :
             \/ ~fits_u32(nb[k][1] * w)
             \/ ~fits_u32(get_index(w, nb[k][1], nb[k][2]))
             \/ get_index(w, nb[k][1], nb[k][2]) >= Len(cs)
       \/ Len(nb) > U8Max

\* let mut next = self.cells.clone(); and entry into the loops
TickBegin ==
    /\ pc = "idle"
    /\ budget > 0
    /\ budget' = budget - 1
    /\ next' = cells
    /\ row' = 0
    /\ col' = 0
    /\ pc' = "tick"
    /\ out' = <<>>
    /\ gen0' = cells
    /\ visited' = <<>>
    /\ UNCHANGED <<width, height, cells>>

\* one iteration of `for col in 0..self.width` inside `for row in 0..self.height`
TickStep ==
    /\ pc = "tick"
    /\ row < height
    /\ IF tick_cell_fails(width, height, cells, next, row, col)
       THEN /\ pc' = "panic"
            /\ UNCHANGED <<cells, next, row, col, visited>>
       ELSE LET b == tick_cell(width, height, cells, next, row, col)
            IN /\ cells' = b.cells
               /\ next' = b.next
               /\ visited' = Append(visited, get_index(width, row, col))
               /\ IF col + 1 < width
                  THEN row' = row /\ col' = col + 1
                  ELSE row' = row + 1 /\ col' = 0
               /\ pc' = pc
    /\ UNCHANGED <<width, height, budget, out, gen0>>

\* self.cells = next;
TickEnd ==
    /\ pc = "tick"
    /\ row >= height
    /\ cells' = next
    /\ next' = <<>>
    /\ pc' = "idle"
    /\ UNCHANGED <<width, height, row, col, budget, out, gen0, visited>>

\* ------------------------------------------------------------------ render
DeadGlyph == "WHITE_LARGE_SQUARE"
AliveGlyph == "PURPLE_SQUARE"
LineBreak == "LF"

\* slice.chunks(n)
RECURSIVE chunks(_, _)
chunks(s, n) ==
    IF s = <<>> THEN <<>>
    ELSE IF Len(s) <= n THEN <<s>>
    ELSE <<SubSeq(s, 1, n)>> \o chunks(SubSeq(s, n + 1, Len(s)), n)

\* variant: the two glyphs exchanged
symbol_swapped(cell) == IF cell = Dead THEN AliveGlyph ELSE DeadGlyph

symbol(cell) == IF cell = Dead THEN DeadGlyph ELSE AliveGlyph

fmt_line(line) == [k \in 1..Len(line) |-> symbol(line[k])] \o <<LineBreak>>

RECURSIVE fmt_lines(_, _)
fmt_lines(ch, k) ==
    IF k = 0 THEN <<>> ELSE fmt_lines(ch, k - 1) \o fmt_line(ch[k])

\* <Universe as Display>::fmt
fmt(w, cs) == LET ch == chunks(cs, w) IN fmt_lines(ch, Len(ch))

\* Universe::render = self.to_string()
Render ==
    /\ pc = "idle"
    /\ out' = fmt(width, cells)
    /\ UNCHANGED <<width, height, cells, next, row, col, pc, budget, gen0, visited>>

\* ------------------------------------------------------------------ specifications
\* Universe::new()
Init ==
    /\ width = new_width
    /\ height = new_height
    /\ cells = new_cells(new_width, new_height)
    /\ next = <<>>
    /\ row = 0
    /\ col = 0
    /\ pc = "idle"
    /\ budget = MaxTicks
    /\ out = <<>>
    /\ gen0 = cells
    /\ visited = <<>>

Next == TickBegin \/ TickStep \/ TickEnd \/ Render

Spec == Init /\ [][Next]_vars

\* Every grid state of every small universe, one tick from each.  The three
\* offsets of live_neighbor_count are distinct modulo a dimension from 3 on,
\* as they are at 64; one dimension is 3 and the other ranges up to its bound.
GridDims == {d \in (3..MaxWidth) \X (3..MaxHeight) : d[1] = 3 \/ d[2] = 3}

InitGrid ==
    /\ \E d \in GridDims :
          /\ width = d[1]
          /\ height = d[2]
          /\ cells \in [1..(d[1] * d[2]) -> Cell]
    /\ next = <<>>
    /\ row = 0
    /\ col = 0
    /\ pc = "idle"
    /\ budget = 1
    /\ out = <<>>
    /\ gen0 = cells
    /\ visited = <<>>

SpecGrid == InitGrid /\ [][Next]_vars

\* Small universes holding the seed pattern of new(), no live cell, or only
\* live cells, ticked MaxTicks times; tick runs to completion once called
\* (single-threaded, synchronous, no suspension points).
InitLive ==
    /\ \E d \in GridDims :
          /\ width = d[1]
          /\ height = d[2]
          /\ cells \in {new_cells(d[1], d[2]),
                        [k \in 1..(d[1] * d[2]) |-> Dead],
                        [k \in 1..(d[1] * d[2]) |-> Alive]}
    /\ next = <<>>
    /\ row = 0
    /\ col = 0
    /\ pc = "idle"
    /\ budget = MaxTicks
    /\ out = <<>>
    /\ gen0 = cells
    /\ visited = <<>>

LiveSpec == InitLive /\ [][Next]_vars /\ WF_vars(TickStep) /\ WF_vars(TickEnd)

\* ------------------------------------------------------------------ reference definitions
\* The statements below are written against these, not against the operators
\* that model the code.

\* mathematical x mod d for d > 0, also for negative x
Mod(x, d) == ((x % d) + d) % d

\* the 8 offsets of the Moore neighbourhood
MooreOffsets == {o \in {-1, 0, 1} \X {-1, 0, 1} : o # <<0, 0>>}

\* the toroidally adjacent coordinates of (r, c)
MooreNeighbours(w, h, r, c) == {<<Mod(r + o[1], h), Mod(c + o[2], w)>> : o \in MooreOffsets}

\* number of offsets whose cell is Alive in grid g
MooreCount(w, h, g, r, c) ==
    Cardinality({o \in MooreOffsets :
                    g[Mod(r + o[1], h) * w + Mod(c + o[2], w) + 1] = Alive})

\* the update rule as a table of (state, count)
LifeRule(s, n) ==
    CASE s = Alive /\ n < 2 -> Dead
      [] s = Alive /\ n \in {2, 3} -> Alive
      [] s = Alive /\ n > 3 -> Dead
      [] s = Dead /\ n = 3 -> Alive
      [] s = Dead /\ n # 3 -> Dead

\* the generation after g, cell by cell
Generation(w, h, g) ==
    [k \in 1..(w * h) |-> LifeRule(g[k], MooreCount(w, h, g, (k - 1) \div w, (k - 1) % w))]

Range(s) == {s[k] : k \in 1..Len(s)}

\* a tick has run to completion and nothing has been called since but render
TickDone == pc = "idle" /\ visited # <<>>

\* ------------------------------------------------------------------ C1
\* C1: after Universe::new(), width = 64, height = 64, and for every linear
\* index i in [0, 4096) the cell at i is Alive iff i % 2 = 0 or i % 7 = 0,
\* and Dead otherwise.
C1_SeedPattern ==
    (budget = MaxTicks /\ pc = "idle") =>
        /\ width = 64
        /\ height = 64
        /\ Len(cells) = 4096
        /\ \A i \in 0..4095 :
              /\ cell_at(cells, i) \in Cell
              /\ cell_at(cells, i) = Alive <=> (i % 2 = 0 \/ i % 7 = 0)

\* the freshly constructed universe: index 7 is odd but a multiple of 7, index
\* 9 is neither
C1_Witness ==
    /\ budget = MaxTicks /\ pc = "idle" /\ out = <<>>
    /\ cell_at(cells, 7) = Alive /\ cell_at(cells, 9) = Dead /\ cell_at(cells, 4094) = Alive

\* ------------------------------------------------------------------ C2
\* C2: after one tick every cell's state is the function of its pre-tick state
\* s and its pre-tick live neighbor count n given by: Alive, n < 2 -> Dead;
\* Alive, n = 2 or 3 -> Alive; Alive, n > 3 -> Dead; Dead, n = 3 -> Alive;
\* Dead, any other n -> Dead.
C2_TickRule ==
    TickDone =>
        \A r \in 0..(height - 1), c \in 0..(width - 1) :
            LET s == cell_at(gen0, get_index(width, r, c))
                n == live_neighbor_count(width, height, gen0, r, c)
                t == cell_at(cells, get_index(width, r, c))
            IN /\ (s = Alive /\ n < 2) => t = Dead
               /\ (s = Alive /\ (n = 2 \/ n = 3)) => t = Alive
               /\ (s = Alive /\ n > 3) => t = Dead
               /\ (s = Dead /\ n = 3) => t = Alive
               /\ (s = Dead /\ n # 3) => t = Dead

\* a completed tick in which stasis, overpopulation, reproduction and the
\* unchanged Dead case all occurred
C2_Witness ==
    /\ TickDone
    /\ \A case \in 2..5 :
          \E r \in 0..(height - 1), c \in 0..(width - 1) :
              LET s == cell_at(gen0, get_index(width, r, c))
                  n == live_neighbor_count(width, height, gen0, r, c)
              IN \/ case = 1 /\ s = Alive /\ n < 2
                 \/ case = 2 /\ s = Alive /\ n \in {2, 3}
                 \/ case = 3 /\ s = Alive /\ n > 3
                 \/ case = 4 /\ s = Dead /\ n = 3
                 \/ case = 5 /\ s = Dead /\ n # 3

\* ------------------------------------------------------------------ C3
HorizontalBlinker == <<Dead, Dead, Dead, Alive, Alive, Alive, Dead, Dead, Dead>>
VerticalBlinker == <<Dead, Alive, Dead, Dead, Alive, Dead, Dead, Alive, Dead>>
AllAlive3x3 == <<Alive, Alive, Alive, Alive, Alive, Alive, Alive, Alive, Alive>>

BlinkerTicked == width = 3 /\ height = 3 /\ gen0 = HorizontalBlinker /\ TickDone

\* C3 as stated: on the 3x3 torus, one tick turns the horizontal blinker into
\* the vertical blinker.
C3_Original == BlinkerTicked => cells = VerticalBlinker

\* C3, amended: on the 3x3 torus, one tick turns the horizontal blinker into
\* the grid whose nine cells are all Alive (each middle-row cell has 2 live
\* neighbors; every other cell has, through the wrap, exactly 3).
C3_BlinkerOnTorus == BlinkerTicked => cells = AllAlive3x3

C3_Witness == BlinkerTicked /\ cells = AllAlive3x3 /\ cells # VerticalBlinker

\* ------------------------------------------------------------------ C4
\* C4: snapshot isolation.  Every iteration of tick writes, at the index it
\* visits, the rule applied to that cell's state and neighbor count in
\* generation N (gen0), whatever has been written to next so far, and leaves
\* the rest of next as it was; so the value written at an index does not
\* depend on the order of the visits.
C4_SnapshotIsolation ==
    [][(pc = "tick" /\ pc' = "tick" /\ visited' # visited) =>
          LET idx == visited'[Len(visited')]
              r == idx \div width
              c == idx % width
          IN /\ cell_at(next', idx) =
                    LifeRule(cell_at(gen0, idx), MooreCount(width, height, gen0, r, c))
             /\ \A j \in 0..(Len(next) - 1) : j # idx => cell_at(next', j) = cell_at(next, j)
             /\ Len(next') = Len(next)]_vars

\* a point inside a tick where updating in place would change the answer: the
\* rule applied to the partly written buffer differs, at the cell about to be
\* visited, from the rule applied to generation N
C4_Witness ==
    /\ pc = "tick" /\ row < height /\ visited # <<>>
    /\ next_cell(cell_at(next, get_index(width, row, col)),
                 live_neighbor_count(width, height, next, row, col))
         # next_cell(cell_at(cells, get_index(width, row, col)),
                     live_neighbor_count(width, height, cells, row, col))

\* ------------------------------------------------------------------ C5
\* C5: in every state reachable from new(), between ticks and inside a tick,
\* cells has length width * height, and width and height hold the values set
\* at construction.
C5_GridSize ==
    /\ Len(cells) = width * height
    /\ width = new_width
    /\ height = new_height

\* inside a tick, after its first iterations have written to next
C5_Witness == pc = "tick" /\ Len(visited) = 3 /\ Len(next) = Len(cells)

\* ------------------------------------------------------------------ C6
\* C6: atomic replacement.  Throughout a tick that starts in generation N the
\* cell array equals generation N in full; it changes only in the final
\* assignment, and then to generation N+1 in full.
C6_AtomicReplacement ==
    /\ [](pc = "tick" => cells = gen0)
    /\ [][cells' # cells =>
             /\ pc = "tick" /\ pc' = "idle"
             /\ cells' = Generation(width, height, cells)]_vars

\* inside a tick, some cells of generation N+1 already differ from N
C6_Witness ==
    /\ pc = "tick" /\ row < height /\ visited # <<>>
    /\ next # cells /\ cells = gen0

\* ------------------------------------------------------------------ C7
\* what render must return for grid cs: h lines, row 0 first, each of w glyphs
\* in column order followed by one line break
RenderShape(o, w, h, cs) ==
    /\ Len(o) = h * (w + 1)
    /\ DeadGlyph # AliveGlyph /\ DeadGlyph # LineBreak /\ AliveGlyph # LineBreak
    /\ \A r \in 0..(h - 1) :
          /\ \A c \in 0..(w - 1) :
                /\ cs[r * w + c + 1] = Dead => o[r * (w + 1) + c + 1] = DeadGlyph
                /\ cs[r * w + c + 1] = Alive => o[r * (w + 1) + c + 1] = AliveGlyph
          /\ o[r * (w + 1) + w + 1] = LineBreak

\* C7: render returns exactly height lines, row 0 first, each of exactly width
\* glyphs in column order followed by one line break, the glyph at line r,
\* position c being the Dead glyph if cell (r, c) is Dead and the different
\* Alive glyph if it is Alive; render leaves width, height and cells unchanged.
C7_Render ==
    [][out' # <<>> =>
          /\ RenderShape(out', width, height, cells)
          /\ UNCHANGED <<width, height, cells>>]_vars

\* a rendering, after a tick, of a non-square grid with cells of both states
C7_Witness ==
    /\ out # <<>> /\ TickDone /\ width # height
    /\ DeadGlyph \in Range(out) /\ AliveGlyph \in Range(out)

\* ------------------------------------------------------------------ C8
\* C8: at every cell tick visits, in every grid state, live_neighbor_count
\* adds the cells at exactly the 8 coordinates ((row + dr) mod height,
\* (column + dc) mod width), (dr, dc) # (0, 0): all within bounds, the cell
\* itself not among them, each once, a cell of row 0 having its up neighbor
\* in row height - 1 (and so for the last row and the first and last
\* columns); the result is the number of Alive cells among them, in [0, 8].
C8_NeighborCount ==
    (pc = "tick" /\ row < height) =>
        LET nb == neighbor_cells(width, height, row, col)
            coords == Range(nb)
            n == live_neighbor_count(width, height, cells, row, col)
        IN /\ Len(nb) = 8
           /\ Cardinality(coords) = 8
           /\ coords \subseteq (0..(height - 1)) \X (0..(width - 1))
           /\ <<row, col>> \notin coords
           /\ coords = MooreNeighbours(width, height, row, col)
           /\ row = 0 => <<height - 1, col>> \in coords
           /\ row = height - 1 => <<0, col>> \in coords
           /\ col = 0 => <<row, width - 1>> \in coords
           /\ col = width - 1 => <<row, 0>> \in coords
           /\ n = MooreCount(width, height, cells, row, col)
           /\ n \in 0..8

\* the corner cell (0, 0) of a non-square grid, Alive itself, whose only live
\* neighbor is the opposite corner, reached through both wraps
C8_Witness ==
    /\ pc = "tick" /\ row = 0 /\ col = 0 /\ width # height
    /\ cell_at(cells, 0) = Alive
    /\ cell_at(cells, get_index(width, height - 1, width - 1)) = Alive
    /\ live_neighbor_count(width, height, cells, 0, 0) = 1

\* ------------------------------------------------------------------ C9
\* C9: get_index(row, column) = row * width + column lies in
\* [0, width * height) for in-range coordinates and is injective on them, and
\* the double loop of tick (rows outer, columns inner) visits the indices
\* 0, 1, ..., width * height - 1 in this order, each exactly once.
C9_IndexBijection ==
    pc = "tick" =>
        /\ Len(visited) = row * width + col
        /\ \A k \in 1..Len(visited) : visited[k] = k - 1
        /\ row < height => get_index(width, row, col) = Len(visited)
        /\ row >= height =>
              /\ Len(visited) = width * height
              /\ Range(visited) = 0..(width * height - 1)
              /\ \A r \in 0..(height - 1), c \in 0..(width - 1) :
                    /\ get_index(width, r, c) = r * width + c
                    /\ get_index(width, r, c) \in 0..(width * height - 1)
              \* as many distinct indices as coordinate pairs: injective
              /\ Cardinality({get_index(width, r, c) :
                                 r \in 0..(height - 1), c \in 0..(width - 1)})
                    = width * height

\* the loops of a tick on a non-square grid have just finished
C9_Witness ==
    /\ pc = "tick" /\ row >= height /\ width # height
    /\ Len(visited) = width * height

\* ------------------------------------------------------------------ C10
\* C10: a started tick never fails and always terminates: it reaches its
\* final assignment after computing exactly width * height cells, and the
\* universe is then ready for the next tick.
C10_TickTerminates ==
    /\ [](pc # "panic")
    /\ (pc = "tick") ~> (pc = "idle")
    /\ [](pc = "tick" /\ row >= height => Len(visited) = width * height)
    /\ [](TickDone => Len(visited) = width * height /\ Len(cells) = width * height)

\* the last tick of the host's budget has completed
C10_Witness == TickDone /\ budget = 0 /\ Len(visited) = width * height

====
